---- MODULE Spec2Model ----
(***************************************************************************)
(* Needleman-Wunsch global alignment and Smith-Waterman local alignment    *)
(* of helper_functions.py, as a state machine: one run of one of the two   *)
(* functions on inputs drawn from bounded sets, one step per loop          *)
(* iteration.  Python indexes sequences from 0, TLA+ from 1, so the        *)
(* source's seq1[i - 1] is seq1[i] here; matrices keep the source's        *)
(* indices 0..n and 0..m.                                                  *)
(***************************************************************************)
EXTENDS Integers, Sequences, FiniteSets

VARIABLES mode, seq1, seq2, scoring_function, pc, i, j,
          dp, align1, align2,
          score_matrix, traceback_matrix, max_score, max_i, max_j,
          aligned_sequence1, aligned_sequence2, ret

vars == <<mode, seq1, seq2, scoring_function, pc, i, j,
          dp, align1, align2,
          score_matrix, traceback_matrix, max_score, max_i, max_j,
          aligned_sequence1, aligned_sequence2, ret>>

(* ------------------------------ bounds --------------------------------- *)

MaxLen1 == 3
MaxLen2 == 2

(* ------------------------------ inputs --------------------------------- *)

\* symbols of the input sequences (the gap marker "-" is excluded)
Sym == {"a", "b"}

\* the character the code passes to scoring_function for an indel
STAR == "*"

\* the character the code writes into the returned strings for an indel
GAP == "-"

Arg == Sym \cup {STAR, GAP}

\* the values of scoring_function on pairs without a "-"
Scores == {-1, 0, 1}

\* the values of scoring_function on pairs with a "-"
DashScores == {-1}

SeqsUpTo(k) == UNION {[1..l -> Sym] : l \in 0..k}

\* a total deterministic scoring function: mt for two equal symbols, mm for
\* two different symbols, del for (symbol, "*"), ins for ("*", symbol), and
\* dash for any pair with a "-" in it
MkScore(mt, mm, del, ins, dash) ==
    [p \in Arg \X Arg |->
        IF p[1] = GAP \/ p[2] = GAP THEN dash
        ELSE IF p[2] = STAR THEN del
        ELSE IF p[1] = STAR THEN ins
        ELSE IF p[1] = p[2] THEN mt
        ELSE mm]

ScoringFunctions ==
    {MkScore(mt, mm, del, ins, dash) :
        mt \in Scores, mm \in Scores, del \in Scores, ins \in Scores,
        dash \in DashScores}

(* ------------------------------ helpers -------------------------------- *)

n == Len(seq1)
m == Len(seq2)

\* [[0] * (m + 1) for _ in range(n + 1)]
ZeroMatrix(rows, cols) == [r \in 0..rows |-> [c \in 0..cols |-> 0]]

Max2(a, b) == IF a >= b THEN a ELSE b

\* Python's max(a, b, c)
Max3(a, b, c) == Max2(Max2(a, b), c)

\* Python's max(0, a, b, c)
Max4(z, a, b, c) == Max2(Max2(Max2(z, a), b), c)

\* list.reverse()
Reverse(s) == [k \in 1..Len(s) |-> s[Len(s) + 1 - k]]

(* ------------------------- global_alignment ---------------------------- *)

\* dp[i - 1][0] + scoring_function(seq1[i - 1], '*')
ColInit(above, x, f) == above + f[<<x, STAR>>]

\* dp[0][j - 1] + scoring_function('*', seq2[j - 1])
RowInit(left, y, f) == left + f[<<STAR, y>>]

\* match_score (both branches of the if compute the same expression)
MatchScore(diag, x, y, f) == diag + f[<<x, y>>]

\* a gap1_score that passes its arguments in the other order
Gap1ScoreArgsSwapped(up, x, f) == up + f[<<STAR, x>>]

\* gap1_score
Gap1Score(up, x, f) == up + f[<<x, STAR>>]

\* gap2_score
Gap2Score(left, y, f) == left + f[<<STAR, y>>]

\* a fill that forgets the gap2_score branch
CellValueNoGap2(diag, up, left, x, y, f) ==
    Max2(MatchScore(diag, x, y, f), Gap1Score(up, x, f))

\* the value stored in dp[i][j]
CellValue(diag, up, left, x, y, f) ==
    Max3(MatchScore(diag, x, y, f), Gap1Score(up, x, f), Gap2Score(left, y, f))

\* for i in range(1, n + 1): dp[i][0] = ...
GInitCol ==
    /\ pc = "g_col"
    /\ i <= n
    /\ dp' = [dp EXCEPT ![i][0] = ColInit(dp[i - 1][0], seq1[i], scoring_function)]
    /\ i' = i + 1
    /\ UNCHANGED <<mode, seq1, seq2, scoring_function, pc, j, align1, align2,
                   score_matrix, traceback_matrix, max_score, max_i, max_j,
                   aligned_sequence1, aligned_sequence2, ret>>

\* the first loop is exhausted, the second starts
GInitColDone ==
    /\ pc = "g_col"
    /\ i > n
    /\ pc' = "g_row"
    /\ j' = 1
    /\ UNCHANGED <<mode, seq1, seq2, scoring_function, i, dp, align1, align2,
                   score_matrix, traceback_matrix, max_score, max_i, max_j,
                   aligned_sequence1, aligned_sequence2, ret>>

\* for j in range(1, m + 1): dp[0][j] = ...
GInitRow ==
    /\ pc = "g_row"
    /\ j <= m
    /\ dp' = [dp EXCEPT ![0][j] = RowInit(dp[0][j - 1], seq2[j], scoring_function)]
    /\ j' = j + 1
    /\ UNCHANGED <<mode, seq1, seq2, scoring_function, pc, i, align1, align2,
                   score_matrix, traceback_matrix, max_score, max_i, max_j,
                   aligned_sequence1, aligned_sequence2, ret>>

\* the second loop is exhausted, the fill starts at (1, 1)
GInitRowDone ==
    /\ pc = "g_row"
    /\ j > m
    /\ pc' = "g_fill"
    /\ i' = 1
    /\ j' = 1
    /\ UNCHANGED <<mode, seq1, seq2, scoring_function, dp, align1, align2,
                   score_matrix, traceback_matrix, max_score, max_i, max_j,
                   aligned_sequence1, aligned_sequence2, ret>>

\* one iteration of the inner loop of the fill, row-major
GFill ==
    /\ pc = "g_fill"
    /\ i <= n
    /\ j <= m
    /\ dp' = [dp EXCEPT ![i][j] =
                CellValue(dp[i - 1][j - 1], dp[i - 1][j], dp[i][j - 1],
                          seq1[i], seq2[j], scoring_function)]
    /\ j' = j + 1
    /\ UNCHANGED <<mode, seq1, seq2, scoring_function, pc, i, align1, align2,
                   score_matrix, traceback_matrix, max_score, max_i, max_j,
                   aligned_sequence1, aligned_sequence2, ret>>

\* the inner loop is exhausted: next row
GFillNextRow ==
    /\ pc = "g_fill"
    /\ i <= n
    /\ j > m
    /\ i' = i + 1
    /\ j' = 1
    /\ UNCHANGED <<mode, seq1, seq2, scoring_function, pc, dp, align1, align2,
                   score_matrix, traceback_matrix, max_score, max_i, max_j,
                   aligned_sequence1, aligned_sequence2, ret>>

\* the outer loop is exhausted: align1, align2 = '', ''; i, j = n, m
GFillDone ==
    /\ pc = "g_fill"
    /\ i > n
    /\ pc' = "g_trace"
    /\ align1' = <<>>
    /\ align2' = <<>>
    /\ i' = n
    /\ j' = m
    /\ UNCHANGED <<mode, seq1, seq2, scoring_function, dp,
                   score_matrix, traceback_matrix, max_score, max_i, max_j,
                   aligned_sequence1, aligned_sequence2, ret>>

\* a loop condition with 'and' for 'or'
TraceCondAnd(r, c) == r > 0 /\ c > 0

\* while i > 0 or j > 0
TraceCond(r, c) == ~(r <= 0 /\ c <= 0)

\* an up test with >= for ==
UpCondAtLeast(d, s1, f, r, c) ==
    r > 0 /\ d[r][c] >= d[r - 1][c] + f[<<s1[r], STAR>>]

\* i > 0 and dp[i][j] == dp[i - 1][j] + scoring_function(seq1[i - 1], '*')
UpCond(d, s1, f, r, c) ==
    r > 0 /\ d[r][c] = d[r - 1][c] + f[<<s1[r], STAR>>]

\* j > 0 and dp[i][j] == dp[i][j - 1] + scoring_function('*', seq2[j - 1])
LeftCond(d, s2, f, r, c) ==
    c > 0 /\ d[r][c] = d[r][c - 1] + f[<<STAR, s2[c]>>]

\* the column the if branch puts in front of align1 / align2
UpColumn(x) == <<x, GAP>>

\* a left step that writes '-' into both strings
LeftColumnBothGaps(y) == <<GAP, GAP>>

\* the column the elif branch puts in front of align1 / align2
LeftColumn(y) == <<GAP, y>>

\* a diagonal step that writes the two symbols into the wrong strings
DiagColumnCrossed(x, y) == <<y, x>>

\* the column the else branch puts in front of align1 / align2
DiagColumn(x, y) == <<x, y>>

\* the if branch of the traceback loop
GTraceUp ==
    /\ pc = "g_trace"
    /\ TraceCond(i, j)
    /\ UpCond(dp, seq1, scoring_function, i, j)
    /\ align1' = <<UpColumn(seq1[i])[1]>> \o align1
    /\ align2' = <<UpColumn(seq1[i])[2]>> \o align2
    /\ i' = i - 1
    /\ UNCHANGED <<mode, seq1, seq2, scoring_function, pc, j, dp,
                   score_matrix, traceback_matrix, max_score, max_i, max_j,
                   aligned_sequence1, aligned_sequence2, ret>>

\* the elif branch of the traceback loop
GTraceLeft ==
    /\ pc = "g_trace"
    /\ TraceCond(i, j)
    /\ ~UpCond(dp, seq1, scoring_function, i, j)
    /\ LeftCond(dp, seq2, scoring_function, i, j)
    /\ align1' = <<LeftColumn(seq2[j])[1]>> \o align1
    /\ align2' = <<LeftColumn(seq2[j])[2]>> \o align2
    /\ j' = j - 1
    /\ UNCHANGED <<mode, seq1, seq2, scoring_function, pc, i, dp,
                   score_matrix, traceback_matrix, max_score, max_i, max_j,
                   aligned_sequence1, aligned_sequence2, ret>>

\* Python's s[k - 1] for a string s and k >= 0: k = 0 reads s[-1], the last
\* character, and raises IndexError on the empty string
PyIndex(s, k) == IF k > 0 THEN s[k] ELSE s[Len(s)]

\* the else branch of the traceback loop
GTraceDiag ==
    /\ pc = "g_trace"
    /\ TraceCond(i, j)
    /\ ~UpCond(dp, seq1, scoring_function, i, j)
    /\ ~LeftCond(dp, seq2, scoring_function, i, j)
    /\ align1' = <<DiagColumn(PyIndex(seq1, i), PyIndex(seq2, j))[1]>> \o align1
    /\ align2' = <<DiagColumn(PyIndex(seq1, i), PyIndex(seq2, j))[2]>> \o align2
    /\ i' = i - 1
    /\ j' = j - 1
    /\ UNCHANGED <<mode, seq1, seq2, scoring_function, pc, dp,
                   score_matrix, traceback_matrix, max_score, max_i, max_j,
                   aligned_sequence1, aligned_sequence2, ret>>

\* return align1, align2, dp[n][m]
GReturn ==
    /\ pc = "g_trace"
    /\ ~TraceCond(i, j)
    /\ pc' = "done"
    /\ ret' = <<align1, align2, dp[n][m]>>
    /\ UNCHANGED <<mode, seq1, seq2, scoring_function, i, j, dp, align1, align2,
                   score_matrix, traceback_matrix, max_score, max_i, max_j,
                   aligned_sequence1, aligned_sequence2>>

\* the score global_alignment returns for (s1, s2, f): the cell (r, c) of the
\* matrix that the three loops build
RECURSIVE GlobalCell(_, _, _, _, _)
GlobalCell(s1, s2, f, r, c) ==
    IF r = 0 /\ c = 0 THEN 0
    ELSE IF c = 0 THEN ColInit(GlobalCell(s1, s2, f, r - 1, 0), s1[r], f)
    ELSE IF r = 0 THEN RowInit(GlobalCell(s1, s2, f, 0, c - 1), s2[c], f)
    ELSE CellValue(GlobalCell(s1, s2, f, r - 1, c - 1),
                   GlobalCell(s1, s2, f, r - 1, c),
                   GlobalCell(s1, s2, f, r, c - 1), s1[r], s2[c], f)

GlobalScore(s1, s2, f) == GlobalCell(s1, s2, f, Len(s1), Len(s2))

(* -------------------------- local_alignment ---------------------------- *)

\* traceback_matrix tags
NONE == 0
DIAGONAL == 1
UP == 2
LEFT == 3

\* match
LMatch(diag, x, y, f) == diag + f[<<x, y>>]

\* delete
LDelete(up, x, f) == up + f[<<x, STAR>>]

\* insert
LInsert(left, y, f) == left + f[<<STAR, y>>]

\* a fill that forgets the delete branch
LCellValueNoDelete(mt, del, ins) == Max3(0, mt, ins)

\* the value stored in score_matrix[i][j]
LCellValue(mt, del, ins) == Max4(0, mt, del, ins)

\* the if / elif chain that sets traceback_matrix[i][j]; old is the value the
\* cell keeps when no branch is taken
Tag(v, mt, del, ins, old) ==
    IF v = 0 THEN NONE
    ELSE IF v = mt THEN DIAGONAL
    ELSE IF v = del THEN UP
    ELSE IF v = ins THEN LEFT
    ELSE old

\* a maximum test with >= for >
NewMaxOrEqual(v, best) == v >= best

\* if score_matrix[i][j] > max_score
NewMax(v, best) == v > best

\* one iteration of the inner loop of the fill, row-major
LFill ==
    /\ pc = "l_fill"
    /\ i <= n
    /\ j <= m
    /\ LET mt == LMatch(score_matrix[i - 1][j - 1], seq1[i], seq2[j], scoring_function)
           del == LDelete(score_matrix[i - 1][j], seq1[i], scoring_function)
           ins == LInsert(score_matrix[i][j - 1], seq2[j], scoring_function)
           v == LCellValue(mt, del, ins)
       IN /\ score_matrix' = [score_matrix EXCEPT ![i][j] = v]
          /\ traceback_matrix' =
                [traceback_matrix EXCEPT ![i][j] = Tag(v, mt, del, ins, @)]
          /\ IF NewMax(v, max_score)
             THEN max_score' = v /\ max_i' = i /\ max_j' = j
             ELSE UNCHANGED <<max_score, max_i, max_j>>
    /\ j' = j + 1
    /\ UNCHANGED <<mode, seq1, seq2, scoring_function, pc, i, dp, align1, align2,
                   aligned_sequence1, aligned_sequence2, ret>>

\* the inner loop is exhausted: next row
LFillNextRow ==
    /\ pc = "l_fill"
    /\ i <= n
    /\ j > m
    /\ i' = i + 1
    /\ j' = 1
    /\ UNCHANGED <<mode, seq1, seq2, scoring_function, pc, dp, align1, align2,
                   score_matrix, traceback_matrix, max_score, max_i, max_j,
                   aligned_sequence1, aligned_sequence2, ret>>

\* the outer loop is exhausted: two empty lists; i, j = max_i, max_j
LFillDone ==
    /\ pc = "l_fill"
    /\ i > n
    /\ pc' = "l_trace"
    /\ aligned_sequence1' = <<>>
    /\ aligned_sequence2' = <<>>
    /\ i' = max_i
    /\ j' = max_j
    /\ UNCHANGED <<mode, seq1, seq2, scoring_function, dp, align1, align2,
                   score_matrix, traceback_matrix, max_score, max_i, max_j, ret>>

\* the column the diagonal branch appends
LDiagColumn(x, y) == <<x, y>>

\* an up step that appends the symbol to the wrong list
LUpColumnCrossed(x) == <<GAP, x>>

\* the column the up branch appends
LUpColumn(x) == <<x, GAP>>

\* the column the left branch appends
LLeftColumn(y) == <<GAP, y>>

\* traceback_matrix[i][j] == 1
LTraceDiag ==
    /\ pc = "l_trace"
    /\ traceback_matrix[i][j] /= NONE
    /\ traceback_matrix[i][j] = DIAGONAL
    /\ aligned_sequence1' =
          Append(aligned_sequence1, LDiagColumn(PyIndex(seq1, i), PyIndex(seq2, j))[1])
    /\ aligned_sequence2' =
          Append(aligned_sequence2, LDiagColumn(PyIndex(seq1, i), PyIndex(seq2, j))[2])
    /\ i' = i - 1
    /\ j' = j - 1
    /\ UNCHANGED <<mode, seq1, seq2, scoring_function, pc, dp, align1, align2,
                   score_matrix, traceback_matrix, max_score, max_i, max_j, ret>>

\* traceback_matrix[i][j] == 2
LTraceUp ==
    /\ pc = "l_trace"
    /\ traceback_matrix[i][j] /= NONE
    /\ traceback_matrix[i][j] = UP
    /\ aligned_sequence1' = Append(aligned_sequence1, LUpColumn(PyIndex(seq1, i))[1])
    /\ aligned_sequence2' = Append(aligned_sequence2, LUpColumn(PyIndex(seq1, i))[2])
    /\ i' = i - 1
    /\ UNCHANGED <<mode, seq1, seq2, scoring_function, pc, j, dp, align1, align2,
                   score_matrix, traceback_matrix, max_score, max_i, max_j, ret>>

\* traceback_matrix[i][j] == 3
LTraceLeft ==
    /\ pc = "l_trace"
    /\ traceback_matrix[i][j] /= NONE
    /\ traceback_matrix[i][j] = LEFT
    /\ aligned_sequence1' = Append(aligned_sequence1, LLeftColumn(PyIndex(seq2, j))[1])
    /\ aligned_sequence2' = Append(aligned_sequence2, LLeftColumn(PyIndex(seq2, j))[2])
    /\ j' = j - 1
    /\ UNCHANGED <<mode, seq1, seq2, scoring_function, pc, i, dp, align1, align2,
                   score_matrix, traceback_matrix, max_score, max_i, max_j, ret>>

\* the loop exits on a NONE tag: reverse both lists, join, return
LReturn ==
    /\ pc = "l_trace"
    /\ traceback_matrix[i][j] = NONE
    /\ pc' = "done"
    /\ aligned_sequence1' = Reverse(aligned_sequence1)
    /\ aligned_sequence2' = Reverse(aligned_sequence2)
    /\ ret' = <<Reverse(aligned_sequence1), Reverse(aligned_sequence2), max_score>>
    /\ UNCHANGED <<mode, seq1, seq2, scoring_function, i, j, dp, align1, align2,
                   score_matrix, traceback_matrix, max_score, max_i, max_j>>

(* ---------------------------- the machine ------------------------------ *)

NoResult == <<>>

Init ==
    /\ mode \in {"global", "local"}
    /\ seq1 \in SeqsUpTo(MaxLen1)
    /\ seq2 \in SeqsUpTo(MaxLen2)
    /\ scoring_function \in ScoringFunctions
    /\ pc = IF mode = "global" THEN "g_col" ELSE "l_fill"
    /\ i = 1
    /\ j = 1
    /\ dp = ZeroMatrix(Len(seq1), Len(seq2))
    /\ align1 = <<>>
    /\ align2 = <<>>
    /\ score_matrix = ZeroMatrix(Len(seq1), Len(seq2))
    /\ traceback_matrix = ZeroMatrix(Len(seq1), Len(seq2))
    /\ max_score = 0
    /\ max_i = 0
    /\ max_j = 0
    /\ aligned_sequence1 = <<>>
    /\ aligned_sequence2 = <<>>
    /\ ret = NoResult

Next ==
    \/ GInitCol
    \/ GInitColDone
    \/ GInitRow
    \/ GInitRowDone
    \/ GFill
    \/ GFillNextRow
    \/ GFillDone
    \/ GTraceUp
    \/ GTraceLeft
    \/ GTraceDiag
    \/ GReturn
    \/ LFill
    \/ LFillNextRow
    \/ LFillDone
    \/ LTraceDiag
    \/ LTraceUp
    \/ LTraceLeft
    \/ LReturn

Spec == Init /\ [][Next]_vars

FairSpec == Spec /\ WF_vars(Next)

(* ------------------- reference notions for the claims ------------------ *)

\* every alignment of s1 with s2: the sequences of columns <<x, y>>, <<x, g>>
\* and <<g, y>> that consume both sequences completely and in order
RECURSIVE Alignments(_, _, _)
Alignments(s1, s2, g) ==
    LET l1 == Len(s1)
        l2 == Len(s2)
        front1 == SubSeq(s1, 1, l1 - 1)
        front2 == SubSeq(s2, 1, l2 - 1)
    IN IF l1 = 0 /\ l2 = 0 THEN {<<>>}
       ELSE (IF l1 > 0 /\ l2 > 0
             THEN {Append(al, <<s1[l1], s2[l2]>>) : al \in Alignments(front1, front2, g)}
             ELSE {})
            \cup
            (IF l1 > 0
             THEN {Append(al, <<s1[l1], g>>) : al \in Alignments(front1, s2, g)}
             ELSE {})
            \cup
            (IF l2 > 0
             THEN {Append(al, <<g, s2[l2]>>) : al \in Alignments(s1, front2, g)}
             ELSE {})

\* the sum of f over the columns of an alignment
RECURSIVE ColumnSum(_, _)
ColumnSum(al, f) ==
    IF al = <<>> THEN 0 ELSE f[Head(al)] + ColumnSum(Tail(al), f)

MaxOf(S) == CHOOSE x \in S : \A y \in S : y <= x

\* the best score of a global alignment of s1 with s2
OptGlobal(s1, s2, f) ==
    MaxOf({ColumnSum(al, f) : al \in Alignments(s1, s2, STAR)})

\* the contiguous substrings of s, the empty one included
Substrings(s) == {SubSeq(s, a, b) : a \in 1..(Len(s) + 1), b \in 0..Len(s)}

\* the best score of an alignment of a substring of s1 with a substring of s2
OptLocal(s1, s2, f) ==
    MaxOf({0} \cup {OptGlobal(t1, t2, f) : t1 \in Substrings(s1), t2 \in Substrings(s2)})

\* the columns of two returned strings
Columns(a1, a2) == [k \in 1..Len(a1) |-> <<a1[k], a2[k]>>]

IsSym(c) == c /= GAP

\* a string with every '-' removed
Degap(a) == SelectSeq(a, IsSym)

NoDoubleGap(a1, a2) ==
    /\ Len(a1) = Len(a2)
    /\ \A k \in 1..Len(a1) : ~(a1[k] = GAP /\ a2[k] = GAP)

\* score'(x, y) = score(y, x)
Swapped(f) == [p \in DOMAIN f |-> f[<<p[2], p[1]>>]]

GlobalDone == pc = "done" /\ mode = "global"
LocalDone == pc = "done" /\ mode = "local"

\* no gap score of f is positive
GapsNonPositive(f) ==
    \A x \in Sym : f[<<x, STAR>>] <= 0 /\ f[<<STAR, x>>] <= 0

(* ------------------------------- claims -------------------------------- *)

\* C1: the score returned by global_alignment is the maximum, over all global
\* alignments of seq1 with seq2, of the sum of the column scores.
GlobalScoreOptimal ==
    GlobalDone => ret[3] = OptGlobal(seq1, seq2, scoring_function)

GlobalScoreOptimalWitness ==
    /\ GlobalDone
    /\ Len(seq1) >= 2
    /\ Len(seq2) >= 1
    /\ seq1[1] /= seq2[1]
    /\ \E k \in 1..Len(ret[1]) : ret[1][k] = GAP \/ ret[2][k] = GAP

\* C2 as stated: the score returned by local_alignment is the maximum of 0 and
\* the best global-alignment score over all substring pairs, for every
\* scoring function.
LocalScoreOptimalAnyScoring ==
    LocalDone => ret[3] = OptLocal(seq1, seq2, scoring_function)

\* C2 as amended: the same, for the scoring functions whose gap scores are
\* never positive.
LocalScoreOptimal ==
    (LocalDone /\ GapsNonPositive(scoring_function))
        => ret[3] = OptLocal(seq1, seq2, scoring_function)

LocalScoreOptimalWitness ==
    /\ LocalDone
    /\ GapsNonPositive(scoring_function)
    /\ Len(seq1) >= 2
    /\ Len(seq2) >= 2
    /\ ret[3] >= 2

\* C3: in both modes, summing score(a1[k], a2[k]) over the columns of the
\* returned strings, taken exactly as returned, gives the returned score.
RescoreReproducesScore ==
    pc = "done" => ColumnSum(Columns(ret[1], ret[2]), scoring_function) = ret[3]

\* C4: global_alignment returns strings that give back seq1 and seq2 when
\* every '-' is deleted; two empty inputs give two empty strings and score 0.
GlobalConsumesBoth ==
    GlobalDone =>
        /\ Degap(ret[1]) = seq1
        /\ Degap(ret[2]) = seq2
        /\ (seq1 = <<>> => ret[1] = [k \in 1..Len(seq2) |-> GAP] /\ ret[2] = seq2)
        /\ (seq2 = <<>> => ret[2] = [k \in 1..Len(seq1) |-> GAP] /\ ret[1] = seq1)
        /\ (seq1 = <<>> /\ seq2 = <<>> => ret = <<<<>>, <<>>, 0>>)

GlobalConsumesBothWitness ==
    /\ GlobalDone
    /\ Len(seq1) >= 2
    /\ Len(seq2) >= 2
    /\ \E k \in 1..Len(ret[1]) : ret[1][k] = GAP
    /\ \E k \in 1..Len(ret[2]) : ret[2][k] = GAP
    /\ \E k \in 1..Len(ret[1]) : ret[1][k] /= GAP /\ ret[2][k] /= GAP

\* C5: local_alignment returns strings that, with every '-' removed, are the
\* substrings seq1[i_end .. max_i-1] and seq2[j_end .. max_j-1] for the cell
\* (i_end, j_end) where the traceback stopped; when every cell of the score
\* matrix is 0 both strings are empty and the score is 0.
LocalSubstrings ==
    LocalDone =>
        /\ Degap(ret[1]) = SubSeq(seq1, i + 1, max_i)
        /\ Degap(ret[2]) = SubSeq(seq2, j + 1, max_j)
        /\ ((\A r \in 0..n, c \in 0..m : score_matrix[r][c] = 0)
                => ret = <<<<>>, <<>>, 0>>)

LocalSubstringsWitness ==
    /\ LocalDone
    /\ i + j >= 1
    /\ max_i > i
    /\ max_j > j
    /\ Degap(ret[1]) /= seq1

\* C6: in both modes, after every traceback step and in the returned result,
\* the two aligned sequences have equal length and no column holds the gap
\* marker in both.
NeverBothGaps ==
    /\ NoDoubleGap(align1, align2)
    /\ NoDoubleGap(aligned_sequence1, aligned_sequence2)
    /\ pc = "done" => NoDoubleGap(ret[1], ret[2])

NeverBothGapsWitness ==
    /\ pc = "g_trace"
    /\ Len(align1) >= 3
    /\ \E k \in 1..Len(align1) : align1[k] = GAP
    /\ \E k \in 1..Len(align2) : align2[k] = GAP

\* C7: global_alignment(A, B, score) and global_alignment(B, A, score') with
\* score'(x, y) = score(y, x) return the same score.
GlobalSymmetry ==
    GlobalDone => ret[3] = GlobalScore(seq2, seq1, Swapped(scoring_function))

GlobalSymmetryWitness ==
    /\ GlobalDone
    /\ Len(seq1) = 2
    /\ Len(seq2) = 1
    /\ scoring_function[<<"a", STAR>>] /= scoring_function[<<STAR, "a">>]
    /\ \E k \in 1..Len(ret[1]) : ret[2][k] = GAP

\* the three recurrence branches at the traceback's cell, from the matrix
UpHolds ==
    i > 0 /\ dp[i][j] = dp[i - 1][j] + scoring_function[<<seq1[i], STAR>>]
LeftHolds ==
    j > 0 /\ dp[i][j] = dp[i][j - 1] + scoring_function[<<STAR, seq2[j]>>]
DiagHolds ==
    /\ i > 0
    /\ j > 0
    /\ dp[i][j] = dp[i - 1][j - 1] + scoring_function[<<seq1[i], seq2[j]>>]

\* C8: every step of global_alignment's traceback is 'up' when the up branch
\* reproduces dp[i][j], otherwise 'left' when the left branch does, and
\* 'diagonal' only when neither does, and then with i > 0, j > 0 and the
\* diagonal branch reproducing dp[i][j].
GlobalTieBreak ==
    [][(pc = "g_trace" /\ pc' = "g_trace") =>
         IF UpHolds
         THEN /\ i' = i - 1 /\ j' = j
              /\ align1' = <<seq1[i]>> \o align1
              /\ align2' = <<GAP>> \o align2
         ELSE IF LeftHolds
         THEN /\ i' = i /\ j' = j - 1
              /\ align1' = <<GAP>> \o align1
              /\ align2' = <<seq2[j]>> \o align2
         ELSE /\ DiagHolds
              /\ i' = i - 1 /\ j' = j - 1
              /\ align1' = <<seq1[i]>> \o align1
              /\ align2' = <<seq2[j]>> \o align2]_vars

\* a cell the traceback left by an 'up' step although all three branches tied
GlobalTieBreakWitness ==
    /\ pc = "g_trace"
    /\ Len(align1) >= 1
    /\ align2[1] = GAP
    /\ j > 0
    /\ dp[i + 1][j] = dp[i + 1][j - 1] + scoring_function[<<STAR, seq2[j]>>]
    /\ dp[i + 1][j] = dp[i][j - 1] + scoring_function[<<seq1[i + 1], seq2[j]>>]

\* (r1, c1) is filled before (r2, c2)
Earlier(r1, c1, r2, c2) == r1 < r2 \/ (r1 = r2 /\ c1 < c2)

FilledCells == (1..n) \X (1..m)

MatrixMax == MaxOf({score_matrix[r][c] : r \in 0..n, c \in 0..m})

\* C9: local_alignment starts its traceback at the first cell, in fill order,
\* that holds the maximum of the whole score matrix, and returns that maximum;
\* when the maximum is 0 the start cell is (0, 0).  Each filled cell's tag is
\* chosen with priority NONE, DIAGONAL, UP, LEFT.
LocalStartAndTags ==
    (mode = "local" /\ pc \in {"l_trace", "done"}) =>
        /\ max_score = MatrixMax
        /\ score_matrix[max_i][max_j] = max_score
        /\ max_score = 0 => max_i = 0 /\ max_j = 0
        /\ max_score > 0 =>
              \A cell \in FilledCells :
                 Earlier(cell[1], cell[2], max_i, max_j)
                    => score_matrix[cell[1]][cell[2]] < max_score
        /\ (pc = "l_trace" /\ aligned_sequence1 = <<>>) => i = max_i /\ j = max_j
        /\ pc = "done" => ret[3] = MatrixMax
        /\ \A cell \in FilledCells :
              LET r == cell[1]
                  c == cell[2]
                  v == score_matrix[r][c]
                  mt == score_matrix[r - 1][c - 1] + scoring_function[<<seq1[r], seq2[c]>>]
                  del == score_matrix[r - 1][c] + scoring_function[<<seq1[r], STAR>>]
                  ins == score_matrix[r][c - 1] + scoring_function[<<STAR, seq2[c]>>]
              IN traceback_matrix[r][c] =
                    IF v = 0 THEN 0
                    ELSE IF v = mt THEN 1
                    ELSE IF v = del THEN 2
                    ELSE 3

\* the maximum is positive and held by two cells, and a cell's value is reached
\* by both the match and the delete branch
LocalStartAndTagsWitness ==
    /\ mode = "local"
    /\ pc = "l_trace"
    /\ max_score > 0
    /\ \E cell \in FilledCells :
          /\ Earlier(max_i, max_j, cell[1], cell[2])
          /\ score_matrix[cell[1]][cell[2]] = max_score
    /\ \E cell \in FilledCells :
          /\ score_matrix[cell[1]][cell[2]] > 0
          /\ score_matrix[cell[1]][cell[2]] =
                score_matrix[cell[1] - 1][cell[2] - 1]
                   + scoring_function[<<seq1[cell[1]], seq2[cell[2]]>>]
          /\ score_matrix[cell[1]][cell[2]] =
                score_matrix[cell[1] - 1][cell[2]]
                   + scoring_function[<<seq1[cell[1]], STAR>>]

InTrace == pc \in {"g_trace", "l_trace"}

\* C10: both traceback loops terminate: every iteration strictly decreases
\* i + j and keeps i >= 0 and j >= 0; global_alignment's loop exits with
\* i = 0 and j = 0 after at most n + m iterations; local_alignment's loop
\* reaches a cell tagged NONE and exits, every cell it visited before having a
\* positive score and a tag in {DIAGONAL, UP, LEFT}.
TracebackTerminates ==
    /\ [][(InTrace /\ pc' = pc) =>
            /\ i' + j' < i + j
            /\ i' >= 0
            /\ j' >= 0
            /\ pc = "l_trace" =>
                  /\ score_matrix[i][j] > 0
                  /\ traceback_matrix[i][j] \in {1, 2, 3}]_vars
    /\ [][(InTrace /\ pc' = "done") =>
            /\ pc = "g_trace" => i = 0 /\ j = 0 /\ Len(align1) <= n + m
            /\ pc = "l_trace" =>
                  traceback_matrix[i][j] = 0 /\ score_matrix[i][j] = 0]_vars
    /\ [](pc = "g_trace" => Len(align1) + i + j <= n + m)
    /\ InTrace ~> (pc = "done")

TracebackTerminatesWitness ==
    /\ LocalDone
    /\ Len(ret[1]) >= 2
    /\ i + j >= 1

====
